---- MODULE Spec2Model ----
(***************************************************************************)
(* Model of the i18n agent: the scaffold-based structural translation     *)
(* transform and the translation invoker (src/translator/content.py), the  *)
(* file search and translate_docs (src/agent/workflow.py,                  *)
(* src/translator/retriever.py) and the chat session's handlers            *)
(* (src/agent/handler.py).                                                 *)
(*                                                                         *)
(* A Python str is a sequence of one-character strings, so that find,      *)
(* replace, split, count, the regular expressions and string.Template are  *)
(* computed character by character as the interpreter computes them.       *)
(* Indices are Python's: 0-based, -1 for "not found".                      *)
(***************************************************************************)
EXTENDS Integers, Sequences, FiniteSets, TLC

VARIABLES
    pc,                     \* position in the pipeline
    content,                \* the fetched document (fill_scaffold's content)
    to_translate,           \* preprocess_content(content)
    translated,             \* the prose returned by the translation invoker
    scaffold,               \* scaffold.template
    anchors,                \* fill_scaffold's anchors, after the adjustment
    translated_divided,     \* fill_scaffold's translated_divided, after the loop
    translated_sections,    \* fill_scaffold's translated_sections, reconciled
    translated_doc,         \* fill_scaffold's return value
    outcome,                \* which return of fill_scaffold ran
    stdout,                 \* what the functions printed, in order
    divided,                \* get_anchors' argument (anchor derivation alone)
    state,                  \* handler.py's global state, a ChatState
    fs,                     \* the files of the translation_result directory
    call                    \* the call in progress or last made, and its effects

vars == <<pc, content, to_translate, translated, scaffold, anchors,
          translated_divided, translated_sections, translated_doc, outcome,
          stdout, divided, state, fs, call>>

(***************************************************************************)
(* Bounds of the model.                                                    *)
(***************************************************************************)
MaxSourceLines == 3
MaxTranslatedLines == 3
MaxTitleLen == 4
\* paragraphs of a source document of the example's kind
MaxParagraphs == 4
\* paragraphs of an answer of the invoker to such a document
MaxAnswerParagraphs == 1
\* files asked of a file search (k)
MaxFiles == 1
\* issues on the page GitHub answers a search with
MaxHits == 6
\* open pull requests
MaxPRs == 3

(***************************************************************************)
(* Characters.                                                             *)
(***************************************************************************)
NL == "\n"

\* the backquote character, which a TLA+ string literal cannot hold
BQ == "BACKQUOTE"

\* the code fence marker: three backquotes
FENCE == <<BQ, BQ, BQ>>

LowerSeq == <<"a","b","c","d","e","f","g","h","i","j","k","l","m",
              "n","o","p","q","r","s","t","u","v","w","x","y","z">>

UpperSeq == <<"A","B","C","D","E","F","G","H","I","J","K","L","M",
              "N","O","P","Q","R","S","T","U","V","W","X","Y","Z">>

DigitSeq == <<"0","1","2","3","4","5","6","7","8","9">>

LowerChars == {LowerSeq[i] : i \in 1..26}

UpperChars == {UpperSeq[i] : i \in 1..26}

DigitChars == {DigitSeq[i] : i \in 1..10}

\* \s of the re module (the ASCII members)
SpaceChars == {" ", "\t", "\n", "\r", "\f"}

IsSpace(c) == c \in SpaceChars

\* str.lower() of one character
Lower(c) ==
    IF c \in UpperChars
    THEN LowerSeq[CHOOSE i \in 1..26 : UpperSeq[i] = c]
    ELSE c

Min(S) == CHOOSE x \in S : \A y \in S : x <= y

(***************************************************************************)
(* str methods.                                                            *)
(***************************************************************************)
\* s[i:], 0-based
From(s, i) == SubSeq(s, i + 1, Len(s))

\* s[:i], 0-based
Upto(s, i) == SubSeq(s, 1, i)

\* s.startswith(pat, i)
MatchAt(s, pat, i) ==
    /\ i + Len(pat) <= Len(s)
    /\ \A k \in 1..Len(pat) : s[i + k] = pat[k]

\* s.find(pat): the first index, -1 when there is none
Find(s, pat) ==
    LET hits == {i \in 0..(Len(s) - Len(pat)) : MatchAt(s, pat, i)}
    IN  IF hits = {} THEN -1 ELSE Min(hits)

\* s.count(pat), pat non-empty: non-overlapping occurrences, left to right
RECURSIVE CountFrom(_, _, _)
CountFrom(s, pat, i) ==
    IF i + Len(pat) > Len(s) THEN 0
    ELSE IF MatchAt(s, pat, i) THEN 1 + CountFrom(s, pat, i + Len(pat))
    ELSE CountFrom(s, pat, i + 1)

Count(s, pat) == CountFrom(s, pat, 0)

\* s.split(sep), sep non-empty
RECURSIVE Split(_, _)
Split(s, sep) ==
    LET i == Find(s, sep)
    IN  IF i = -1 THEN <<s>>
        ELSE <<Upto(s, i)>> \o Split(From(s, i + Len(sep)), sep)

\* s.replace(old, new, 1): the first occurrence; an empty old matches at 0
ReplaceFirst(s, old, new) ==
    LET i == Find(s, old)
    IN  IF i = -1 THEN s
        ELSE Upto(s, i) \o new \o From(s, i + Len(old))

\* s.replace(" ", "-")
RECURSIVE ReplaceSpaces(_)
ReplaceSpaces(s) ==
    IF s = <<>> THEN <<>>
    ELSE <<IF Head(s) = " " THEN "-" ELSE Head(s)>> \o ReplaceSpaces(Tail(s))

\* s.strip()
RECURSIVE LStrip(_)
LStrip(s) ==
    IF s # <<>> /\ IsSpace(Head(s)) THEN LStrip(Tail(s)) ELSE s

RECURSIVE RStrip(_)
RStrip(s) ==
    IF s # <<>> /\ IsSpace(s[Len(s)]) THEN RStrip(Upto(s, Len(s) - 1)) ELSE s

Strip(s) == RStrip(LStrip(s))

\* s.lower()
LowerStr(s) == [i \in 1..Len(s) |-> Lower(s[i])]

\* "".join(parts)
RECURSIVE Join(_)
Join(parts) ==
    IF parts = <<>> THEN <<>> ELSE Head(parts) \o Join(Tail(parts))

\* str(n) for n >= 0
RECURSIVE Digits(_)
Digits(n) ==
    IF n < 10 THEN <<DigitSeq[n + 1]>>
    ELSE Digits(n \div 10) \o <<DigitSeq[(n % 10) + 1]>>

\* the length of the longest run of characters of the set S from index i on
RECURSIVE RunLen(_, _, _)
RunLen(s, i, S) ==
    IF i < Len(s) /\ s[i + 1] \in S THEN 1 + RunLen(s, i + 1, S) ELSE 0

(***************************************************************************)
(* The re module, for the four patterns of content.py.                     *)
(***************************************************************************)
\* re.sub(r"\n\n+", "\n\n", s)
RECURSIVE CollapseNewlines(_, _)
CollapseNewlines(s, i) ==
    IF i >= Len(s) THEN <<>>
    ELSE LET r == RunLen(s, i, {NL})
         IN  IF r >= 2 THEN <<NL, NL>> \o CollapseNewlines(s, i + r)
             ELSE <<s[i + 1]>> \o CollapseNewlines(s, i + 1)

\* re.sub(r"[^a-z0-9\s]+", "", s)
RECURSIVE DeleteOthers(_)
DeleteOthers(s) ==
    IF s = <<>> THEN <<>>
    ELSE IF Head(s) \in LowerChars \cup DigitChars \cup SpaceChars
         THEN <<Head(s)>> \o DeleteOthers(Tail(s))
         ELSE DeleteOthers(Tail(s))

\* re.sub(r"\s{2,}", " ", s)
RECURSIVE CollapseSpaces(_, _)
CollapseSpaces(s, i) ==
    IF i >= Len(s) THEN <<>>
    ELSE LET r == RunLen(s, i, SpaceChars)
         IN  IF r >= 2 THEN <<" ">> \o CollapseSpaces(s, i + r)
             ELSE <<s[i + 1]>> \o CollapseSpaces(s, i + 1)

\* the index of the end of the line that holds index i: where the title group stops
RECURSIVE LineEnd(_, _)
LineEnd(s, i) ==
    IF i >= Len(s) \/ s[i + 1] = NL THEN i ELSE LineEnd(s, i + 1)

\* ^ under re.MULTILINE: the start of the text or just after a newline
AtLineStart(s, i) == i = 0 \/ s[i] = NL

\* whether the heading pattern (group 1: #+\s+, group 2: the rest of the
\* line) matches at index i; both runs are greedy and the rest never fails,
\* so there is nothing to backtrack into
HeadingAt(s, i) ==
    LET h == RunLen(s, i, {"#"})
    IN  AtLineStart(s, i) /\ h >= 1 /\ RunLen(s, i + h, SpaceChars) >= 1

\* re.split(heading pattern, s, flags=re.MULTILINE), scanning from index i
\* with the text since index start not yet emitted
RECURSIVE ReSplit(_, _, _)
ReSplit(s, start, i) ==
    IF i >= Len(s) THEN <<From(s, start)>>
    ELSE IF HeadingAt(s, i)
    THEN LET h == RunLen(s, i, {"#"})
             w == RunLen(s, i + h, SpaceChars)
             e == LineEnd(s, i + h + w)
         IN  <<SubSeq(s, start + 1, i),
               SubSeq(s, i + 1, i + h + w),
               SubSeq(s, i + h + w + 1, e)>> \o ReSplit(s, e, e)
    ELSE ReSplit(s, start, i + 1)

(***************************************************************************)
(* string.Template                                                         *)
(***************************************************************************)
\* "$hf_i18n_placeholder"
PLACEHOLDER == <<"$","h","f","_","i","1","8","n","_",
                 "p","l","a","c","e","h","o","l","d","e","r">>

\* f"$hf_i18n_placeholder{i}"
Token(i) == PLACEHOLDER \o Digits(i)

\* Template.idpattern, under re.IGNORECASE: [_a-z][_a-z0-9]*
IdStartChars == LowerChars \cup UpperChars \cup {"_"}

IdChars == IdStartChars \cup DigitChars

\* the value of identifier id in {f"hf_i18n_placeholder{k}": values[k]}:
\* <<TRUE, value>> when id is a key, <<FALSE, <<>>>> when it is not
Lookup(values, id) ==
    LET ks == {k \in 1..Len(values) : Tail(Token(k - 1)) = id}
    IN  IF ks = {} THEN <<FALSE, <<>>>>
        ELSE <<TRUE, values[CHOOSE k \in ks : TRUE]>>

\* Template(s).safe_substitute(mapping), from index i: $$ is an escaped $,
\* $identifier and ${identifier} are replaced when the identifier is a key
\* and kept when it is not, any other $ is kept
RECURSIVE SafeSubstitute(_, _, _)
SafeSubstitute(s, values, i) ==
    IF i >= Len(s) THEN <<>>
    ELSE IF s[i + 1] # "$"
    THEN <<s[i + 1]>> \o SafeSubstitute(s, values, i + 1)
    ELSE IF i + 1 < Len(s) /\ s[i + 2] = "$"
    THEN <<"$">> \o SafeSubstitute(s, values, i + 2)
    ELSE IF i + 1 < Len(s) /\ s[i + 2] \in IdStartChars
    THEN LET n  == RunLen(s, i + 1, IdChars)
             id == SubSeq(s, i + 2, i + 1 + n)
             v  == Lookup(values, id)
         IN  (IF v[1] THEN v[2] ELSE <<"$">> \o id)
                 \o SafeSubstitute(s, values, i + 1 + n)
    ELSE IF /\ i + 2 < Len(s)
            /\ s[i + 2] = "{"
            /\ s[i + 3] \in IdStartChars
            /\ LET n == RunLen(s, i + 2, IdChars)
               IN  i + 2 + n < Len(s) /\ s[i + 3 + n] = "}"
    THEN LET n  == RunLen(s, i + 2, IdChars)
             id == SubSeq(s, i + 3, i + 2 + n)
             v  == Lookup(values, id)
         IN  (IF v[1] THEN v[2] ELSE <<"$", "{">> \o id \o <<"}">>)
                 \o SafeSubstitute(s, values, i + 3 + n)
    ELSE <<"$">> \o SafeSubstitute(s, values, i + 1)

(***************************************************************************)
(* src/translator/content.py                                               *)
(***************************************************************************)
\* one print call: the text printed, or the label with its arguments
Line(label, args) == [line |-> label, args |-> args]

preprocess_content(c) ==
    LET i   == Find(c, <<"#">>)
        cut == IF i = -1
               THEN (IF c = <<>> THEN <<>> ELSE From(c, Len(c) - 1))
               ELSE From(c, i)
    IN  CollapseNewlines(cut, 0)

\* split_markdown_sections without the [1:] of line 64: the text before the
\* first heading stays in the list
split_markdown_sections_whole(markdown) == ReSplit(markdown, 0, 0)

split_markdown_sections(markdown) == Tail(ReSplit(markdown, 0, 0))

\* divided[1::3], also of a list whose length is no multiple of 3
Titles(d) == [i \in 1..((Len(d) + 1) \div 3) |-> d[3 * i - 1]]

\* get_anchor without the first re.sub: punctuation and capitals are kept
get_anchor_keep_others(title) ==
    <<"[", "[">>
        \o ReplaceSpaces(CollapseSpaces(Strip(LowerStr(title)), 0))
        \o <<"]", "]">>

\* re.sub(r"\s+", " ", s): a pattern that also matches one character
RECURSIVE CollapseAnySpaces(_, _)
CollapseAnySpaces(s, i) ==
    IF i >= Len(s) THEN <<>>
    ELSE LET r == RunLen(s, i, SpaceChars)
         IN  IF r >= 1 THEN <<" ">> \o CollapseAnySpaces(s, i + r)
             ELSE <<s[i + 1]>> \o CollapseAnySpaces(s, i + 1)

\* get_anchor with \s+ for \s{2,}
get_anchor_collapse_any(title) ==
    <<"[", "[">>
        \o ReplaceSpaces(CollapseAnySpaces(
                              Strip(DeleteOthers(LowerStr(title))), 0))
        \o <<"]", "]">>

\* the body of get_anchors' loop
get_anchor(title) ==
    LET anchor == DeleteOthers(LowerStr(title))
    IN  <<"[", "[">>
            \o ReplaceSpaces(CollapseSpaces(Strip(anchor), 0))
            \o <<"]", "]">>

get_anchors(d) ==
    LET titles == Titles(d)
    IN  [i \in 1..Len(titles) |-> get_anchor(titles[i])]

\* the loop of make_scaffold, from paragraph i (0-based) on
RECURSIVE ScaffoldLoop(_, _, _)
ScaffoldLoop(s, texts, i) ==
    IF i >= Len(texts) THEN s
    ELSE ScaffoldLoop(ReplaceFirst(s, texts[i + 1], Token(i)), texts, i + 1)

\* not a heading line
IsBody(text) == text = <<>> \/ text[1] # "#"

\* make_scaffold with placeholders for the paragraphs that are not headings
make_scaffold_bodies_only(c, t) ==
    ScaffoldLoop(c, SelectSeq(Split(t, <<NL, NL>>), IsBody), 0)

make_scaffold(c, t) == ScaffoldLoop(c, Split(t, <<NL, NL>>), 0)

is_in_code_block(text, position) ==
    Count(Upto(text, position), FENCE) % 2 = 1

\* adjust_anchors without the else branch: extra headers get no anchor entry
adjust_anchors_cut_only(a, n) ==
    IF n < Len(a) THEN SubSeq(a, 1, n) ELSE a

\* lines 113-120: the anchors cut or padded to n translated headers
adjust_anchors(a, n) ==
    IF n < Len(a) THEN SubSeq(a, 1, n)
    ELSE a \o [k \in 1..(n - Len(a)) |-> <<>>]

\* attach_anchor with the anchor derived from the translated title
attach_anchor_of_translation(tr, korean_title, anchor) ==
    LET header_pos == Find(tr, Strip(korean_title))
    IN  IF header_pos # -1 /\ ~is_in_code_block(tr, header_pos)
        THEN korean_title \o <<" ">> \o get_anchor(korean_title)
        ELSE korean_title

\* lines 126-130: the i-th translated title (0-based) with its anchor
attach_anchor(tr, korean_title, anchor) ==
    LET header_pos == Find(tr, Strip(korean_title))
    IN  IF header_pos # -1 /\ ~is_in_code_block(tr, header_pos)
        THEN korean_title \o <<" ">> \o anchor
        ELSE korean_title

\* reconcile_sections without the elif branch: extra sections are kept
reconcile_sections_pad_only(sections, placeholder_count) ==
    IF Len(sections) < placeholder_count
    THEN sections \o [k \in 1..(placeholder_count - Len(sections)) |-> <<>>]
    ELSE sections

\* reconcile_sections without the if branch: missing sections stay missing
reconcile_sections_cut_only(sections, placeholder_count) ==
    IF Len(sections) < placeholder_count
    THEN sections
    ELSE SubSeq(sections, 1, placeholder_count)

\* no reconciliation at all: the sections as the translation gave them
reconcile_sections_skipped(sections, placeholder_count) == sections

\* lines 151-156: the translated sections padded or cut to the placeholders
reconcile_sections(sections, placeholder_count) ==
    IF Len(sections) < placeholder_count
    THEN sections \o [k \in 1..(placeholder_count - Len(sections)) |-> <<>>]
    ELSE SubSeq(sections, 1, placeholder_count)

\* "Error: Section count mismatch. Expected: "
ERROR_EXPECTED == <<"E","r","r","o","r",":"," ",
                    "S","e","c","t","i","o","n"," ","c","o","u","n","t"," ",
                    "m","i","s","m","a","t","c","h","."," ",
                    "E","x","p","e","c","t","e","d",":"," ">>

\* ", Got: "
ERROR_GOT == <<",", " ", "G", "o", "t", ":", " ">>

fill_scaffold(c, t, tr) ==
    LET template == make_scaffold(c, t)
        original_sections == Split(t, <<NL, NL>>)
        orig_divided == split_markdown_sections(t)
        anchors0 == get_anchors(orig_divided)
        td0 == split_markdown_sections(tr)
        titles == Titles(td0)
        mismatch == Len(titles) # Len(anchors0)
        anchors1 == IF mismatch THEN adjust_anchors(anchors0, Len(titles))
                    ELSE anchors0
        td1 == [j \in 1..Len(td0) |->
                   IF j % 3 = 2 /\ (j + 1) \div 3 <= Len(anchors1)
                   THEN attach_anchor(tr, td0[j], anchors1[(j + 1) \div 3])
                   ELSE td0[j]]
        reconstructed == Join(SubSeq(td1, 1, 3 * (Len(td1) \div 3)))
        sections0 == Split(reconstructed, <<NL, NL>>)
        placeholder_count == Count(template, PLACEHOLDER)
        sections1 == reconcile_sections(sections0, placeholder_count)
        failed == Len(sections1) # placeholder_count
    IN  [scaffold |-> template,
         anchors |-> anchors1,
         translated_divided |-> td1,
         translated_sections |-> sections1,
         result |-> IF failed THEN "error" ELSE "document",
         doc |-> IF failed
                 THEN ERROR_EXPECTED \o Digits(placeholder_count)
                          \o ERROR_GOT \o Digits(Len(sections1))
                 ELSE SafeSubstitute(template, sections1, 0),
         out |-> <<Line("inner scaffold:", <<>>), Line("", <<template>>),
                   Line("scaffold:", <<>>), Line("", <<template>>),
                   Line("divided:", <<>>), Line("", orig_divided),
                   Line("translated divided:", <<>>), Line("", td0)>>
                 \o (IF mismatch
                     THEN <<Line("Warning: Header count mismatch.",
                                 <<Len(anchors0), Len(titles)>>)>>
                     ELSE <<>>)
                 \o <<Line("scaffold template count:", <<>>),
                      Line("", <<placeholder_count>>),
                      Line("original sections length:", <<>>),
                      Line("", <<Len(original_sections)>>),
                      Line("translated sections length:", <<>>),
                      Line("", <<Len(sections0)>>)>>]

(***************************************************************************)
(* Inputs: documents are lines joined by newlines.                         *)
(***************************************************************************)
\* "\n".join(lines)
RECURSIVE JoinLines(_)
JoinLines(lines) ==
    IF lines = <<>> THEN <<>>
    ELSE IF Len(lines) = 1 THEN lines[1]
    ELSE lines[1] \o <<NL>> \o JoinLines(Tail(lines))

\* parts joined by blank lines
RECURSIVE JoinParagraphs(_)
JoinParagraphs(parts) ==
    IF parts = <<>> THEN <<>>
    ELSE IF Len(parts) = 1 THEN parts[1]
    ELSE parts[1] \o <<NL, NL>> \o JoinParagraphs(Tail(parts))

\* every document of at most n lines of the set lines
Documents(lines, n) ==
    {JoinLines(f) : f \in UNION {[1..k -> lines] : k \in 0..n}}

\* lines of a source document: two headings, a blank line and a line of text
SourceLines == {<<"#", " ", "a">>, <<"#", " ", "b">>, <<>>, <<"a">>}

\* lines of a translation: a heading, a blank line, text and a code fence
TranslatedLines == {<<"#", " ", "b">>, <<>>, <<"b">>, FENCE}

\* characters of a heading title: letters of both cases, a digit, a space,
\* a tab and punctuation
TitleChars == {"a", "B", "1", " ", "\t", "!"}

\* every title of at most n characters
TitleSet(n) == UNION {[1..k -> TitleChars] : k \in 0..n}

\* titles of a second section
SecondTitles == {<<"b">>, <<"A", " ", " ", "b">>}

(***************************************************************************)
(* The session: handler.py's ChatState and the translation_result files.   *)
(***************************************************************************)
\* Python's None
None == "None"

\* ChatState.__init__: the reference PR of a new session
DEFAULT_REFERENCE_PR_URL ==
    "https://github.com/huggingface/transformers/pull/24968"

\* ChatState()
ChatState ==
    [step |-> "welcome",
     target_language |-> "ko",
     k_files |-> 10,
     files_to_translate |-> <<>>,
     additional_instruction |-> "",
     current_file_content |-> [translated |-> <<>>],
     pr_result |-> None,
     github_config |-> [token |-> "", owner |-> "", repo_name |-> "",
                        reference_pr_url |-> DEFAULT_REFERENCE_PR_URL]]

\* a path of translation_result that does not exist, and one that is a
\* directory
Absent == "Absent"
Directory == "Directory"

\* the paths of translation_result the model follows: two documents and
\* the empty relative path, the directory itself
Files == {"docs/source/en/a.md", "docs/source/en/b.md"}
Paths == Files \cup {""}

\* no call made
NoCall == [handler |-> "none"]

\* the session untouched: the transform and the anchor derivation have none
NoSession ==
    /\ state = ChatState
    /\ fs = [p \in Paths |-> Absent]
    /\ call = NoCall

(***************************************************************************)
(* The transform: preprocess_content, the translation invoker's answer,    *)
(* fill_scaffold.                                                          *)
(***************************************************************************)
Init ==
    /\ pc = "fetched"
    /\ content \in Documents(SourceLines, MaxSourceLines)
    /\ to_translate = <<>>
    /\ translated = <<>>
    /\ scaffold = <<>>
    /\ anchors = <<>>
    /\ translated_divided = <<>>
    /\ translated_sections = <<>>
    /\ translated_doc = <<>>
    /\ outcome = "none"
    /\ stdout = <<>>
    /\ divided = <<>>
    /\ NoSession

PreprocessContent ==
    /\ pc = "fetched"
    /\ to_translate' = preprocess_content(content)
    /\ pc' = "preprocessed"
    /\ UNCHANGED <<content, translated, scaffold, anchors, translated_divided,
                   translated_sections, translated_doc, outcome, stdout,
                   divided, state, fs, call>>

\* the invoker is opaque: it answers any prose, the prose it was sent included
Translate ==
    /\ pc = "preprocessed"
    /\ \E t \in Documents(TranslatedLines, MaxTranslatedLines)
                    \cup {to_translate} :
           translated' = t
    /\ pc' = "translated"
    /\ UNCHANGED <<content, to_translate, scaffold, anchors,
                   translated_divided, translated_sections, translated_doc,
                   outcome, stdout, divided, state, fs, call>>

FillScaffold ==
    /\ pc = "translated"
    /\ \E r \in {fill_scaffold(content, to_translate, translated)} :
           /\ scaffold' = r.scaffold
           /\ anchors' = r.anchors
           /\ translated_divided' = r.translated_divided
           /\ translated_sections' = r.translated_sections
           /\ translated_doc' = r.doc
           /\ outcome' = r.result
           /\ stdout' = stdout \o r.out
    /\ pc' = "done"
    /\ UNCHANGED <<content, to_translate, translated, divided, state, fs,
                   call>>

Next == PreprocessContent \/ Translate \/ FillScaffold

Spec == Init /\ [][Next]_vars

(***************************************************************************)
(* The transform on documents written as paragraphs: the paragraphs of the *)
(* example scenario, joined by blank lines.                                *)
(***************************************************************************)
\* "# Title", "Hello world.", "## Sub", "More text."
ExampleParagraphs ==
    << <<"#", " ", "T", "i", "t", "l", "e">>,
       <<"H", "e", "l", "l", "o", " ", "w", "o", "r", "l", "d", ".">>,
       <<"#", "#", " ", "S", "u", "b">>,
       <<"M", "o", "r", "e", " ", "t", "e", "x", "t", ".">> >>

\* the example document: its four paragraphs in order
ExampleDocument == JoinParagraphs(ExampleParagraphs)

\* every document of at most n of the example's paragraphs, in any order
ParagraphDocuments(n) ==
    {JoinParagraphs(f) :
        f \in UNION {[1..k -> {ExampleParagraphs[j] : j \in 1..4}] :
                        k \in 0..n}}

InitExample ==
    /\ pc = "fetched"
    /\ content \in ParagraphDocuments(MaxParagraphs)
    /\ to_translate = <<>>
    /\ translated = <<>>
    /\ scaffold = <<>>
    /\ anchors = <<>>
    /\ translated_divided = <<>>
    /\ translated_sections = <<>>
    /\ translated_doc = <<>>
    /\ outcome = "none"
    /\ stdout = <<>>
    /\ divided = <<>>
    /\ NoSession

\* the invoker answers nothing, the prose it was sent, or a few paragraphs
TranslateExample ==
    /\ pc = "preprocessed"
    /\ \E t \in ParagraphDocuments(MaxAnswerParagraphs) \cup {to_translate} :
           translated' = t
    /\ pc' = "translated"
    /\ UNCHANGED <<content, to_translate, scaffold, anchors,
                   translated_divided, translated_sections, translated_doc,
                   outcome, stdout, divided, state, fs, call>>

NextExample == PreprocessContent \/ TranslateExample \/ FillScaffold

SpecExample == InitExample /\ [][NextExample]_vars

(***************************************************************************)
(* Anchor derivation alone: get_anchors on a segmentation.                 *)
(***************************************************************************)
InitAnchors ==
    /\ pc = "divided"
    /\ \E t1 \in TitleSet(MaxTitleLen) :
           \/ divided = <<<<"#", " ">>, t1, <<>>>>
           \/ \E t2 \in SecondTitles :
                  divided = <<<<"#", " ">>, t1, <<NL>>,
                              <<"#", "#", " ">>, t2, <<>>>>
    /\ content = <<>>
    /\ to_translate = <<>>
    /\ translated = <<>>
    /\ scaffold = <<>>
    /\ anchors = <<>>
    /\ translated_divided = <<>>
    /\ translated_sections = <<>>
    /\ translated_doc = <<>>
    /\ outcome = "none"
    /\ stdout = <<>>
    /\ NoSession

GetAnchors ==
    /\ pc = "divided"
    /\ anchors' = get_anchors(divided)
    /\ pc' = "anchored"
    /\ UNCHANGED <<content, to_translate, translated, scaffold,
                   translated_divided, translated_sections, translated_doc,
                   outcome, stdout, divided, state, fs, call>>

NextAnchors == GetAnchors

SpecAnchors == InitAnchors /\ [][NextAnchors]_vars

(***************************************************************************)
(* The translation invoker alone: llm_translate, statement by statement.   *)
(* Loading the model, loading the tokenizer, building the pipeline and     *)
(* running it can each raise; the except clause of line 181 catches what   *)
(* they raise.                                                             *)
(***************************************************************************)
\* the variables the invoker and the session leave alone
transformVars == <<content, scaffold, anchors, translated_divided,
                   translated_sections, translated_doc, outcome, stdout,
                   divided>>

NoTransform ==
    /\ content = <<>>
    /\ scaffold = <<>>
    /\ anchors = <<>>
    /\ translated_divided = <<>>
    /\ translated_sections = <<>>
    /\ translated_doc = <<>>
    /\ outcome = "none"
    /\ stdout = <<>>
    /\ divided = <<>>

\* huggingface_model_name: a model of the hub and a name the hub has not
ModelNames == {"Helsinki-NLP/opus-mt-en-ko", "no-such-model"}

\* the status messages of lines 179 and 182, without their leading emoji
COMPLETED == "Translation completed using Hugging Face model: "
FAILED == "Hugging Face Translation failed: "

InitInvoker ==
    /\ pc = "line 170"
    /\ to_translate \in Documents(SourceLines, MaxSourceLines)
    /\ translated = <<>>
    /\ \E name \in ModelNames :
           call = [handler |-> "llm_translate",
                   huggingface_model_name |-> name,
                   exception |-> None,
                   returned |-> None]
    /\ state = ChatState
    /\ fs = [p \in Paths |-> Absent]
    /\ NoTransform

\* a statement of the try block at line from: it completes and control goes
\* to line to, or it raises e and control goes to the except clause
Statement(from, to, e) ==
    /\ pc = from
    /\ \/ /\ pc' = to
          /\ call' = call
       \/ /\ pc' = "line 181"
          /\ call' = [call EXCEPT !.exception = e]

\* line 170; a name the hub does not have always raises
from_pretrained_model ==
    /\ Statement("line 170", "line 171", "OSError")
    /\ call.huggingface_model_name = "no-such-model" => pc' = "line 181"
    /\ UNCHANGED <<to_translate, translated, state, fs>>
    /\ UNCHANGED transformVars

\* line 171
from_pretrained_tokenizer ==
    /\ Statement("line 171", "line 172", "OSError")
    /\ UNCHANGED <<to_translate, translated, state, fs>>
    /\ UNCHANGED transformVars

\* line 172
pipeline ==
    /\ Statement("line 172", "line 175", "ValueError")
    /\ UNCHANGED <<to_translate, translated, state, fs>>
    /\ UNCHANGED transformVars

\* lines 175-176: the model answers any prose, or the call raises
translator ==
    /\ Statement("line 175", "line 179", "RuntimeError")
    /\ \E t \in Documents(TranslatedLines, MaxTranslatedLines)
                    \cup {to_translate} :
           translated' = IF pc' = "line 179" THEN t ELSE translated
    /\ UNCHANGED <<to_translate, state, fs>>
    /\ UNCHANGED transformVars

\* lines 179-180
return_translation ==
    /\ pc = "line 179"
    /\ pc' = "returned"
    /\ call' = [call EXCEPT
                    !.returned = <<<<COMPLETED, call.huggingface_model_name>>,
                                   translated>>]
    /\ UNCHANGED <<to_translate, translated, state, fs>>
    /\ UNCHANGED transformVars

\* lines 181-182: whatever was raised, the status message and "" are returned
return_failure ==
    /\ pc = "line 181"
    /\ pc' = "returned"
    /\ call' = [call EXCEPT
                    !.returned = <<<<FAILED, call.exception>>, <<>>>>]
    /\ UNCHANGED <<to_translate, translated, state, fs>>
    /\ UNCHANGED transformVars

NextInvoker ==
    \/ from_pretrained_model
    \/ from_pretrained_tokenizer
    \/ pipeline
    \/ translator
    \/ return_translation
    \/ return_failure

SpecInvoker == InitInvoker /\ [][NextInvoker]_vars

(***************************************************************************)
(* The session: the handlers of handler.py on the global state, with       *)
(* translate_docs of workflow.py and the translation_result directory.     *)
(* The chat history is each handler's argument: the model keeps what the   *)
(* call appended to it.                                                    *)
(***************************************************************************)
\* an entry of translation_result: nothing, a directory, a file and its text
NoFile == [kind |-> Absent, text |-> <<>>]
Dir == [kind |-> Directory, text |-> <<>>]
File(text) == [kind |-> "file", text |-> text]

\* what requests.get answers: a document, an empty one, 404, nothing
Responses ==
    {[raised |-> FALSE, status_code |-> 200, text |-> <<"#", " ", "a">>],
     [raised |-> FALSE, status_code |-> 200, text |-> <<>>],
     [raised |-> FALSE, status_code |-> 404, text |-> <<"4", "0", "4">>],
     [raised |-> TRUE, status_code |-> 0, text |-> <<>>]}

\* what requests.get may answer when st is the state: it is called only
\* on the way from find_files to a translation
Answers(st) ==
    IF st.step = "find_files" /\ st.files_to_translate # <<>>
    THEN Responses
    ELSE {[raised |-> TRUE, status_code |-> 0, text |-> <<>>]}

\* translate_docs ends by raising exception at line
Raise(exception, line) ==
    [result |-> "raised", exception |-> exception, line |-> line,
     callback_result |-> "", translated_doc |-> <<>>]

\* translate_docs ends by returning at line
Return(line, callback_result, document) ==
    [result |-> "returned", exception |-> None, line |-> line,
     callback_result |-> callback_result, translated_doc |-> document]

\* a call of translate_docs as the handlers' caller can tell it: the
\* arguments, what requests.get had to answer, and how the call t ended
Translation(lang, file_path, response, t) ==
    [lang |-> lang, file_path |-> file_path, response |-> response,
     result |-> t.result, exception |-> t.exception, line |-> t.line,
     callback_result |-> t.callback_result,
     translated_doc |-> t.translated_doc]

\* no translation asked for
NoTranslation ==
    [lang |-> "", file_path |-> "",
     response |-> [raised |-> TRUE, status_code |-> 0, text |-> <<>>],
     result |-> "none", exception |-> None, line |-> 0,
     callback_result |-> "", translated_doc |-> <<>>]

\* translate_docs, files being translation_result and response what
\* requests.get answers in get_content.  The call of line 79 gives
\* llm_translate one argument where it takes two: it raises TypeError.
translate_docs(lang, file_path, additional_instruction, files, response) ==
    LET existing == files[file_path]
    IN  IF existing.kind = Directory
        THEN Raise("IsADirectoryError", 59)
        ELSE IF existing.kind = "file" /\ Strip(existing.text) # <<>>
        THEN Return(62, "Existing translation loaded (no tokens used)",
                    existing.text)
        ELSE IF file_path = "" THEN Raise("ValueError", 66)
        ELSE IF response.raised THEN Raise("ConnectionError", 66)
        ELSE IF response.status_code # 200 THEN Raise("ValueError", 66)
        ELSE IF lang # "ko" THEN Raise("UnboundLocalError", 75)
        ELSE Raise("TypeError", 79)

\* translate_docs_interactive: the first of the selected files
translate_docs_interactive(translate_lang, selected_files, instruction, files, response) ==
    translate_docs(translate_lang, selected_files[1][1], instruction, files,
                   response)

\* start_translation_process: the state and the files it leaves, what it
\* returns (a pair, or a str alone from the except clause)
start_translation_process(st, files, response) ==
    IF st.files_to_translate = <<>>
    THEN [state |-> st, fs |-> files, returned |-> "str",
          response |-> "No files available for translation.",
          translation |-> NoTranslation]
    ELSE LET current_file == st.files_to_translate[1]
             t == translate_docs_interactive(
                      st.target_language, <<<<current_file>>>>,
                      st.additional_instruction, files, response)
         IN  IF t.result = "returned"
             THEN [state |-> [st EXCEPT !.current_file_content =
                                 [translated |-> t.translated_doc]],
                   fs |-> [files EXCEPT ![current_file] =
                                            File(t.translated_doc),
                                        ![""] = Dir],
                   returned |-> "tuple",
                   response |-> "Translation for: ",
                   translation |-> Translation(st.target_language,
                                               current_file, response, t)]
             ELSE [state |-> st, fs |-> files, returned |-> "str",
                   response |-> "Translation failed: ",
                   translation |-> Translation(st.target_language,
                                               current_file, response, t)]

\* word in message.lower()
In(word, message) == Find(LowerStr(message), word) # -1

\* handle_general_message
handle_general_message(st, message) ==
    IF \E word \in {<<"h", "e", "l", "p">>, <<"w", "h", "a", "t">>, <<"h", "o", "w">>} : In(word, message)
    THEN [state |-> st,
          response |-> "I'm your Hugging Face i18n Translation Agent!"]
    ELSE IF In(<<"r", "e", "s", "t", "a", "r", "t">>, message)
    THEN [state |-> ChatState,
          response |-> "Welcome to Hugging Face i18n Translation Agent!"]
    ELSE [state |-> st,
          response |-> "I understand you want to work on translations!"]

\* a handler returns, having appended responses to the history
Returned(handler, st, files, appended, translation, pr) ==
    [handler |-> handler, result |-> "returned", exception |-> None,
     state |-> st, fs |-> files, appended |-> appended,
     translation |-> translation, generate_github_pr |-> pr]

\* a handler raises
Raised(handler, exception, st, files, translation, pr) ==
    [handler |-> handler, result |-> "raised", exception |-> exception,
     state |-> st, fs |-> files, appended |-> <<>>,
     translation |-> translation, generate_github_pr |-> pr]

\* generate_github_pr is not called
NoPR == [called |-> FALSE, filepath |-> "", translated_content |-> <<>>]

\* handle_user_message, called by handler
handle_user_message(handler, st, files, message, response) ==
    IF Strip(message) = <<>>
    THEN Returned(handler, st, files, <<>>, NoTranslation, NoPR)
    ELSE IF /\ st.step = "find_files"
            /\ \E word \in {<<"y", "e", "s">>, <<"p", "r", "o", "c", "e", "e", "d">>, <<"s", "t", "a", "r", "t">>, <<"t", "r", "a", "n", "s", "l", "a", "t", "e">>,
                            <<"t", "r", "a", "n", "s", "l", "a", "t", "i", "o", "n">>} : In(word, message)
    THEN IF st.files_to_translate # <<>>
         THEN LET p == start_translation_process(
                           [st EXCEPT !.step = "translate"], files, response)
              IN  IF p.returned = "tuple"
                  THEN Returned(handler, p.state, p.fs,
                                <<p.response, "translated">>,
                                p.translation, NoPR)
                  ELSE Raised(handler, "ValueError", p.state, p.fs,
                              p.translation, NoPR)
         ELSE Returned(handler, st, files,
                       <<"No files available for translation. Please search for files first.">>,
                       NoTranslation, NoPR)
    ELSE LET g == handle_general_message(st, message)
         IN  Returned(handler, g.state, files, <<g.response>>,
                      NoTranslation, NoPR)

\* the call made, and the state and the files it leaves
Effect(r) ==
    /\ state' = r.state
    /\ fs' = r.fs
    /\ call' = [handler |-> r.handler, result |-> r.result,
                exception |-> r.exception, appended |-> r.appended,
                translation |-> r.translation,
                generate_github_pr |-> r.generate_github_pr]
    /\ UNCHANGED <<pc, to_translate, translated>>
    /\ UNCHANGED transformVars

\* what a user types in the chat
Messages ==
    {<<" ">>, <<"R", "e", "s", "t", "a", "r", "t">>, <<"y", "e", "s">>,
     <<"h", "e", "l", "p">>, <<"h", "e", "l", "l", "o">>}

Langs == {"ko", "ja"}

\* list[:n]
Slice(list, n) == SubSeq(list, 1, IF n < Len(list) THEN n ELSE Len(list))

\* lists of at most k distinct documents
FileLists(k) ==
    {l \in UNION {[1..n -> Files] : n \in 0..k} :
        \A i, j \in 1..Len(l) : i < j => l[i] # l[j]}

\* report_translation_target_files hands back at most one document, the
\* first that report retrieves if it is not in progress (report's top_k is
\* 1 whatever k is), or raises; report_in_translation_status_files may
\* exclude it
process_file_search_handler ==
    /\ pc = "session"
    /\ \E lang \in Langs, k \in 1..MaxFiles :
        LET st == [state EXCEPT !.target_language = lang, !.k_files = k,
                                !.step = "find_files"]
        IN  \/ \E files_list \in {Slice(l, 1) : l \in FileLists(k)} :
                   Effect(Returned("process_file_search_handler",
                                   [st EXCEPT !.files_to_translate = files_list],
                                   fs, <<"File search completed!">>,
                                   NoTranslation, NoPR))
            \/ Effect(Raised("process_file_search_handler", "Exception", st,
                             fs, NoTranslation, NoPR))

\* send_message: handle_user_message, then update_status
send_message ==
    /\ pc = "session"
    /\ \E message \in Messages, response \in Answers(state) :
        Effect(handle_user_message("send_message", state, fs, message,
                                   response))

AdditionalInstructions == {"Use formal speech."}

start_translate_handler ==
    /\ pc = "session"
    /\ \E file_to_translate \in Paths,
          additional_instruction \in AdditionalInstructions :
        \E response \in Answers([state EXCEPT !.files_to_translate =
                                     <<file_to_translate>>]) :
        Effect(handle_user_message(
                   "start_translate_handler",
                   [state EXCEPT
                       !.additional_instruction = additional_instruction,
                       !.files_to_translate = <<file_to_translate>>],
                   fs, <<"s", "t", "a", "r", "t", " ", "t", "r", "a", "n", "s", "l", "a", "t", "i", "o", "n">>, response))

Tokens == {"", "ghp_token"}
Owners == {"", "me"}
Repos == {"", "transformers"}
ReferencePRs == {"", "https://github.com/huggingface/transformers/pull/1"}

update_github_config ==
    /\ pc = "session"
    /\ \E token \in Tokens, owner \in Owners, repo \in Repos,
       reference_pr_url \in ReferencePRs :
        Effect(Returned("update_github_config",
                        [state EXCEPT !.github_config =
                            [token |-> token, owner |-> owner,
                             repo_name |-> repo,
                             reference_pr_url |->
                                 IF reference_pr_url # ""
                                 THEN reference_pr_url
                                 ELSE state.github_config.reference_pr_url]],
                        fs, <<>>, NoTranslation, NoPR))

\* what find_reference_pr_simple_stream ends with: an ImportError, or the
\* URL of the first hit or of the fallback
SearchResults ==
    {"ImportError", DEFAULT_REFERENCE_PR_URL,
     "https://github.com/huggingface/transformers/pull/1"}

\* lines 419-436 without the test of the translated content
proceed_with_pr_any_content(st, files, bound) ==
    IF st.files_to_translate # <<>>
    THEN IF bound
         THEN Raised("approve_handler", "NameError", st, files,
                     NoTranslation,
                     [called |-> TRUE,
                      filepath |-> st.files_to_translate[1],
                      translated_content |->
                          st.current_file_content.translated])
         ELSE Raised("approve_handler", "UnboundLocalError", st, files,
                     NoTranslation, NoPR)
    ELSE Returned("approve_handler", st, files,
                  <<"No translated file available.">>, NoTranslation, NoPR)

\* lines 419-436 of approve_handler; bound says whether response is bound,
\* which it is when the reference PR was searched for.  generate_github_pr
\* reads GITHUB_PR_AVAILABLE, a name workflow.py does not define.
proceed_with_pr(st, files, bound) ==
    IF st.files_to_translate # <<>>
       /\ st.current_file_content.translated # <<>>
    THEN IF bound
         THEN Raised("approve_handler", "NameError", st, files,
                     NoTranslation,
                     [called |-> TRUE,
                      filepath |-> st.files_to_translate[1],
                      translated_content |->
                          st.current_file_content.translated])
         ELSE Raised("approve_handler", "UnboundLocalError", st, files,
                     NoTranslation, NoPR)
    ELSE Returned("approve_handler", st, files,
                  <<"No translated file available.">>, NoTranslation, NoPR)

\* approve_handler called with st the state, found being what the search
\* for a reference PR ends with
approve(st, files, owner, repo, reference_pr_url, found) ==
    LET config == [st EXCEPT !.step = "create_github_pr",
                             !.github_config.owner = owner,
                             !.github_config.repo_name = repo,
                             !.github_config.reference_pr_url =
                                 reference_pr_url]
    IN  IF config.github_config.token = "" \/ owner = "" \/ repo = ""
        THEN Returned("approve_handler", config, files,
                      <<"GitHub configuration incomplete.">>,
                      NoTranslation, NoPR)
        ELSE IF reference_pr_url # ""
        THEN proceed_with_pr(config, files, FALSE)
        ELSE IF found = "ImportError"
        THEN Returned("approve_handler", config, files,
                      <<"Agent failed to find a reference PR.">>,
                      NoTranslation, NoPR)
        ELSE proceed_with_pr(
                 [config EXCEPT !.github_config.reference_pr_url = found],
                 files, TRUE)

approve_handler ==
    /\ pc = "session"
    /\ \E owner \in Owners, repo \in Repos, reference_pr_url \in ReferencePRs :
        \E found \in (IF reference_pr_url = "" /\ owner # "" /\ repo # ""
                          /\ state.github_config.token # ""
                       THEN SearchResults ELSE {"ImportError"}) :
        Effect(approve(state, fs, owner, repo, reference_pr_url, found))

restart_handler ==
    /\ pc = "session"
    /\ Effect(Returned("restart_handler", ChatState, fs,
                    <<"Welcome to Hugging Face i18n Translation Agent!">>,
                    NoTranslation, NoPR))

\* translation_result in a deployment: missing, an empty directory, or a
\* directory with a translation of one document and a blank file for the
\* other
Deployments ==
    {[p \in Paths |-> NoFile],
     [p \in Paths |-> IF p = "" THEN Dir ELSE NoFile],
     [p \in Paths |->
         IF p = "" THEN Dir
         ELSE IF p = "docs/source/en/a.md" THEN File(<<"#", " ", "b">>)
         ELSE File(<<NL>>)]}

InitSession ==
    /\ state = ChatState
    /\ fs \in Deployments
    /\ call = NoCall
    /\ pc = "session"
    /\ to_translate = <<>>
    /\ translated = <<>>
    /\ NoTransform

NextSession ==
    \/ process_file_search_handler
    \/ send_message
    \/ start_translate_handler
    \/ update_github_config
    \/ approve_handler
    \/ restart_handler

SpecSession == InitSession /\ [][NextSession]_vars

(***************************************************************************)
(* The file search of workflow.py: report_translation_target_files with    *)
(* report and retrieve of retriever.py.  The repository listing and the    *)
(* open pull requests are GitHub's answers; Languages and Summary are      *)
(* defined in translator/model.py.                                         *)
(***************************************************************************)
\* the English documents of the repository
DocFiles == Files \cup {"docs/source/en/c.md"}

\* lists of at most n distinct documents
DocLists(n) ==
    {l \in UNION {[1..k -> DocFiles] : k \in 0..n} :
        \A i, j \in 1..Len(l) : i < j => l[i] # l[j]}

\* [f for f in list if f not in excluded]
RECURSIVE NotIn(_, _)
NotIn(list, excluded) ==
    IF list = <<>> THEN <<>>
    ELSE (IF \E i \in 1..Len(excluded) : excluded[i] = list[1]
          THEN <<>> ELSE <<list[1]>>) \o NotIn(Tail(list), excluded)

\* retrieve: the first table_size documents of the summary without a
\* translation (Summary.first_missing_translation_files)
retrieve(missing, table_size) == Slice(missing, table_size)

\* report(project, target_lang, top_k): missing are the documents the
\* summary finds without a translation, in the listing's order; resolves
\* says whether Languages has a member for target_lang (line 127 raises
\* KeyError if not)
report(project, target_lang, top_k, missing, resolves) ==
    IF resolves
    THEN [result |-> "returned", exception |-> None,
          files |-> retrieve(missing, top_k)]
    ELSE [result |-> "raised", exception |-> "KeyError", files |-> <<>>]

\* report_translation_target_files.  Line 31 calls report(translate_lang,
\* top_k * 2): the language is bound to project, top_k * 2 to target_lang,
\* and report's top_k keeps its default, 1.
report_translation_target_files(translate_lang, top_k, docs_in_progress, missing, resolves) ==
    LET r == report(translate_lang, top_k * 2, 1, missing, resolves)
        filepath_list == Slice(NotIn(r.files, docs_in_progress), top_k)
    IN  IF r.result = "raised" THEN r
        ELSE [r EXCEPT !.files = [i \in 1..Len(filepath_list) |->
                                     <<filepath_list[i]>>]]

InitReport ==
    /\ pc = "line 28"
    /\ \E lang \in Langs, k \in 1..MaxFiles,
          missing \in DocLists(Cardinality(DocFiles)),
          in_progress \in DocLists(Cardinality(DocFiles) - 1) :
           call = [handler |-> "report_translation_target_files",
                   translate_lang |-> lang, top_k |-> k,
                   missing |-> missing, docs_in_progress |-> in_progress,
                   result |-> "none", exception |-> None, files |-> <<>>]
    /\ state = ChatState
    /\ fs = [p \in Paths |-> Absent]
    /\ to_translate = <<>>
    /\ translated = <<>>
    /\ NoTransform

ReportTranslationTargetFiles ==
    /\ pc = "line 28"
    /\ \E resolves \in BOOLEAN :
           \E r \in {report_translation_target_files(
                         call.translate_lang, call.top_k,
                         call.docs_in_progress, call.missing, resolves)} :
               call' = [call EXCEPT !.result = r.result,
                                    !.exception = r.exception,
                                    !.files = r.files]
    /\ pc' = "line 48"
    /\ UNCHANGED <<to_translate, translated, state, fs>>
    /\ UNCHANGED transformVars

NextReport == ReportTranslationTargetFiles

SpecReport == InitReport /\ [][NextReport]_vars

(***************************************************************************)
(* The reference PR search of searcher.py: find_reference_pr_simple_stream *)
(* driven to its end, as approve_handler drives it with next().  GitHub's  *)
(* answer to the search is a page of issues, or an exception.              *)
(***************************************************************************)
\* the pull requests GitHub may list
PullRequests ==
    {"https://github.com/huggingface/transformers/pull/1",
     "https://github.com/huggingface/transformers/pull/2"}

\* DEFAULT_FALLBACK_PR_URL, the same pull request as the session's default
DEFAULT_FALLBACK_PR_URL == DEFAULT_REFERENCE_PR_URL

\* a dict of _search_github_prs: a hit with its url, or the error entry,
\* which has no "url" key
Hit(url) == [key |-> "url", url |-> url]
ErrorEntry == [key |-> "error", url |-> ""]

\* _search_github_prs: the first five issues of the page, the error entry
\* alone if the search raised
search_github_prs(answer) ==
    IF answer.raised THEN <<ErrorEntry>>
    ELSE [i \in 1..Len(Slice(answer.page, 5)) |-> Hit(answer.page[i])]

\* lines 113-124 without the except clause: the KeyError of the error
\* entry leaves the generator
best_reference_pr_unguarded(search_results) ==
    IF search_results = <<>> THEN DEFAULT_FALLBACK_PR_URL
    ELSE IF search_results[1].key = "url" THEN search_results[1].url
    ELSE "KeyError"

\* lines 105-124 of find_best_reference_pr: the URL it returns
best_reference_pr(search_results) ==
    IF search_results = <<>> THEN DEFAULT_FALLBACK_PR_URL
    ELSE IF search_results[1].key = "url" THEN search_results[1].url
    ELSE DEFAULT_FALLBACK_PR_URL

InitSearcher ==
    /\ pc = "line 132"
    /\ \E libs \in BOOLEAN, raised \in BOOLEAN, lang \in Langs,
          page \in UNION {[1..n -> PullRequests] : n \in 0..MaxHits} :
           call = [handler |-> "find_reference_pr_simple_stream",
                   REQUIRED_LIBS_AVAILABLE |-> libs,
                   target_language |-> lang,
                   answer |-> [raised |-> raised,
                               page |-> IF raised THEN <<>> ELSE page],
                   search_results |-> <<>>,
                   yielded |-> <<>>,
                   result |-> "none",
                   value |-> [status |-> "", result |-> <<>>]]
    /\ state = ChatState
    /\ fs = [p \in Paths |-> Absent]
    /\ to_translate = <<>>
    /\ translated = <<>>
    /\ NoTransform

\* line 132: GitHubPRSearcher() raises ImportError without the libraries
GitHubPRSearcher ==
    /\ pc = "line 132"
    /\ IF call.REQUIRED_LIBS_AVAILABLE
       THEN /\ pc' = "line 94"
            /\ call' = call
       ELSE /\ pc' = "raised"
            /\ call' = [call EXCEPT !.result = "ImportError"]
    /\ UNCHANGED <<to_translate, translated, state, fs>>
    /\ UNCHANGED transformVars

\* lines 94-96: the first message
yield_searching ==
    /\ pc = "line 94"
    /\ pc' = "line 103"
    /\ call' = [call EXCEPT !.yielded = @ \o <<"Searching">>]
    /\ UNCHANGED <<to_translate, translated, state, fs>>
    /\ UNCHANGED transformVars

\* line 103
SearchGithubPrs ==
    /\ pc = "line 103"
    /\ pc' = "line 105"
    /\ call' = [call EXCEPT !.search_results =
                                search_github_prs(call.answer)]
    /\ UNCHANGED <<to_translate, translated, state, fs>>
    /\ UNCHANGED transformVars

\* lines 105-124 and 137-145: the message yielded last, the URL returned
\* and the result made of it
find_best_reference_pr ==
    /\ pc = "line 105"
    /\ \E url \in {best_reference_pr(call.search_results)} :
           IF url = "KeyError"
           THEN /\ pc' = "raised"
                /\ call' = [call EXCEPT !.result = "KeyError"]
           ELSE /\ pc' = "returned"
                /\ call' = [call EXCEPT
                       !.yielded = @ \o
                           <<IF call.search_results = <<>>
                             THEN "No suitable PRs found"
                             ELSE IF call.search_results[1].key = "url"
                             THEN "Selected the best PR"
                             ELSE "Error during PR search">>,
                       !.result = "returned",
                       !.value = [status |-> "success",
                                  result |-> <<"Recommended PR URL: ",
                                               url>>]]
    /\ UNCHANGED <<to_translate, translated, state, fs>>
    /\ UNCHANGED transformVars

NextSearcher ==
    \/ GitHubPRSearcher
    \/ yield_searching
    \/ SearchGithubPrs
    \/ find_best_reference_pr

SpecSearcher == InitSearcher /\ [][NextSearcher]_vars

(***************************************************************************)
(* The open pull requests of retriever.py: get_github_issue_open_pr from   *)
(* GitHub's answer to its return, and the in-progress lines that           *)
(* report_translation_target_files makes of the two lists.                 *)
(***************************************************************************)
\* the characters \w matches
WordChars == LowerChars \cup UpperChars \cup DigitChars \cup {"_"}

I18N_KO == <<"[", "i", "1", "8", "n", "-", "K", "O", "]">>
DOT_MD == <<".", "m", "d">>

\* the first alternative of the pattern at i: a backquote, characters other
\* than the backquote ending in .md, a backquote; the end of the match or -1
QuotedAt(title, i) ==
    IF ~MatchAt(title, <<BQ>>, i) THEN -1
    ELSE LET n == RunLen(title, i + 1, {title[k] : k \in 1..Len(title)} \ {BQ})
         IN  IF /\ n >= 4
                /\ MatchAt(title, DOT_MD, i + 1 + n - 3)
                /\ MatchAt(title, <<BQ>>, i + 1 + n)
             THEN i + 1 + n + 1
             ELSE -1

\* the second alternative at i: word characters, then .md
BareAt(title, i) ==
    LET n == RunLen(title, i, WordChars)
    IN  IF n >= 1 /\ MatchAt(title, DOT_MD, i + n) THEN i + n + 3 ELSE -1

\* pattern.search(title), then match.group(1) or match.group(2)
search(title) ==
    LET hits == {i \in 0..(Len(title) - 1) :
                    QuotedAt(title, i) # -1 \/ BareAt(title, i) # -1}
        i == Min(hits)
    IN  IF hits = {} THEN [matched |-> FALSE, filename |-> <<>>]
        ELSE IF QuotedAt(title, i) # -1
        THEN [matched |-> TRUE,
              filename |-> SubSeq(title, i + 2, QuotedAt(title, i) - 1)]
        ELSE [matched |-> TRUE,
              filename |-> SubSeq(title, i + 1, BareAt(title, i))]

\* "[i18n-KO]" in pr["title"]
IsI18nKO(pr) == Find(pr.title, I18N_KO) # -1

\* the entry of pr_info_list for pr
PrInfo(pr) ==
    [repo_url |-> "https://github.com/huggingface/transformers",
     pull |-> pr.number]

\* the titles of the open pull requests
PRTitles ==
    {<<"[", "i", "1", "8", "n", "-", "K", "O", "]", " ", BQ, "a", ".", "m", "d", BQ>>,
     <<"[", "i", "1", "8", "n", "-", "K", "O", "]", " ", "b", ".", "m", "d">>,
     <<"[", "i", "1", "8", "n", "-", "K", "O", "]", " ", "t", "o", "c">>,
     <<BQ, "a", ".", "m", "d", BQ>>}

InitOpenPRs ==
    /\ pc = "line 40"
    /\ \E issue_id \in BOOLEAN, status_code \in {200, 403},
          titles \in UNION {[1..n -> PRTitles] : n \in 0..MaxPRs} :
           call = [handler |-> "get_github_issue_open_pr",
                   issue_id |-> issue_id, status_code |-> status_code,
                   all_open_prs |->
                       [n \in 1..Len(titles) |->
                           [title |-> titles[n], number |-> n]],
                   filtered_prs |-> <<>>, filenames |-> <<>>,
                   from_pr |-> <<>>, pr_info_list |-> <<>>,
                   result |-> "none", exception |-> None,
                   status_report |-> <<>>]
    /\ state = ChatState
    /\ fs = [p \in Paths |-> Absent]
    /\ to_translate = <<>>
    /\ translated = <<>>
    /\ NoTransform

\* lines 40-77: the issue of the language, the pages of open PRs
get_open_prs ==
    /\ pc = "line 40"
    /\ IF ~call.issue_id
       THEN /\ pc' = "raised"
            /\ call' = [call EXCEPT !.result = "raised",
                                    !.exception = "ValueError"]
       ELSE IF call.status_code # 200
       THEN /\ pc' = "raised"
            /\ call' = [call EXCEPT !.result = "raised",
                                    !.exception = "Exception"]
       ELSE /\ pc' = "line 79"
            /\ call' = call
    /\ UNCHANGED <<to_translate, translated, state, fs>>
    /\ UNCHANGED transformVars

\* line 79
filter_prs ==
    /\ pc = "line 79"
    /\ pc' = "line 85"
    /\ call' = [call EXCEPT !.filtered_prs =
                                SelectSeq(call.all_open_prs, IsI18nKO)]
    /\ UNCHANGED <<to_translate, translated, state, fs>>
    /\ UNCHANGED transformVars

\* lines 85-90, one turn of the loop; from_pr remembers the PR each file
\* name was taken from
append_filename ==
    /\ pc = "line 85"
    /\ Len(call.from_pr) < Len(call.filtered_prs)
    /\ \E pr \in {call.filtered_prs[Len(call.from_pr) + 1]} :
       \E match \in {search(pr.title)} :
           call' = [call EXCEPT
               !.from_pr = @ \o <<IF match.matched
                                  THEN Len(call.filenames) + 1 ELSE 0>>,
               !.filenames =
                   IF match.matched
                   THEN @ \o <<<<"docs/source/en/">> \o match.filename>>
                   ELSE @]
    /\ UNCHANGED <<pc, to_translate, translated, state, fs>>
    /\ UNCHANGED transformVars

\* lines 91-95
return_lists ==
    /\ pc = "line 85"
    /\ Len(call.from_pr) = Len(call.filtered_prs)
    /\ pc' = "line 28"
    /\ call' = [call EXCEPT
           !.pr_info_list = [n \in 1..Len(call.filtered_prs) |->
                                PrInfo(call.filtered_prs[n])],
           !.result = "returned"]
    /\ UNCHANGED <<to_translate, translated, state, fs>>
    /\ UNCHANGED transformVars

\* workflow.py, lines 42-46: a line for each file in progress
report_in_progress ==
    /\ pc = "line 28"
    /\ call.handler = "get_github_issue_open_pr"
    /\ pc' = "line 48"
    /\ call' = [call EXCEPT !.status_report =
           [i \in 1..Len(call.filenames) |->
               [file |-> call.filenames[i],
                pr_info |-> call.pr_info_list[i]]]]
    /\ UNCHANGED <<to_translate, translated, state, fs>>
    /\ UNCHANGED transformVars

NextOpenPRs ==
    \/ get_open_prs
    \/ filter_prs
    \/ append_filename
    \/ return_lists
    \/ report_in_progress

SpecOpenPRs == InitOpenPRs /\ [][NextOpenPRs]_vars

(***************************************************************************)
(* What the claims read off a finished run.                                *)
(***************************************************************************)
Done == pc = "done"

ParagraphBreak == <<NL, NL>>

\* the titles of the headings of the original prose, in order
OrigTitles == Titles(split_markdown_sections(to_translate))

\* the titles of the headings of the translation, as the invoker wrote them
TransTitles == Titles(split_markdown_sections(translated))

\* the titles of the headings of the translation, as fill_scaffold left them
NewTitles == Titles(translated_divided)

\* the sum of the lengths of the first n elements of parts
RECURSIVE LenSum(_, _)
LenSum(parts, n) ==
    IF n = 0 THEN 0 ELSE Len(parts[n]) + LenSum(parts, n - 1)

\* the index in text of the first character of its i-th heading line
HeadingStart(text, i) == LenSum(ReSplit(text, 0, 0), 3 * i - 2)

\* the paragraphs of the reconstructed translation, before reconciliation
ReconstructedSections ==
    Split(Join(SubSeq(translated_divided, 1,
                      3 * (Len(translated_divided) \div 3))),
          ParagraphBreak)

\* scaffold.template.count("$hf_i18n_placeholder")
PlaceholderCount == Count(scaffold, PLACEHOLDER)

HeaderWarning == "Warning: Header count mismatch."

Printed(label) == \E k \in 1..Len(stdout) : stdout[k].line = label

\* the labels fill_scaffold prints on every run
EveryRunLabels ==
    {"", "inner scaffold:", "scaffold:", "divided:", "translated divided:",
     "scaffold template count:", "original sections length:",
     "translated sections length:"}

\* an anchor without its brackets
Slug(anchor) == SubSeq(anchor, 3, Len(anchor) - 2)

HasAnchorForm(anchor) ==
    /\ Len(anchor) >= 4
    /\ SubSeq(anchor, 1, 2) = <<"[", "[">>
    /\ SubSeq(anchor, Len(anchor) - 1, Len(anchor)) = <<"]", "]">>

Chars(str) == {str[k] : k \in 1..Len(str)}

(***************************************************************************)
(* C1: the scaffold of a document holds exactly N placeholder tokens, one  *)
(* for each index 0..N-1, N being the number of paragraphs of the prose.   *)
(* The code replaces each paragraph's first occurrence in a text that      *)
(* already holds the earlier tokens, so a paragraph that is a piece of a   *)
(* token ("a") is replaced inside it.                                      *)
(***************************************************************************)
C1_PlaceholderPerParagraph ==
    Done =>
        LET N == Len(Split(to_translate, ParagraphBreak))
        IN  /\ PlaceholderCount = N
            /\ \A i \in 0..(N - 1) : Count(scaffold, Token(i)) = 1

\* sections (from index j on) with the anchor appended to every heading of
\* text that lies outside a code fence
RECURSIVE WithAnchors(_, _, _)
WithAnchors(text, parts, j) ==
    IF 3 * j > Len(parts) - 1 THEN <<>>
    ELSE LET title == parts[3 * j]
             start == HeadingStart(text, j)
         IN  parts[3 * j - 1]
                 \o (IF is_in_code_block(text, start) THEN title
                     ELSE title \o <<" ">> \o get_anchor(title))
                 \o parts[3 * j + 1]
                 \o WithAnchors(text, parts, j + 1)

\* c, with the anchor appended to each heading outside a code fence
ExpectedRoundTrip(c) ==
    LET parts == ReSplit(c, 0, 0)
    IN  parts[1] \o WithAnchors(c, parts, 1)

(***************************************************************************)
(* C2: with the prose returned unchanged, the result is the document with  *)
(* an anchor appended to each heading outside a code fence, and nothing    *)
(* else changed.                                                           *)
(***************************************************************************)
C2_IdentityRoundTrip ==
    (Done /\ translated = to_translate) =>
        translated_doc = ExpectedRoundTrip(content)

\* the i-th translated heading (1-based) ends in an anchor it did not have
AnchorAppended(i) ==
    /\ Len(NewTitles[i]) >= Len(TransTitles[i]) + 5
    /\ SubSeq(NewTitles[i], 1, Len(TransTitles[i]) + 1)
           = TransTitles[i] \o <<" ">>
    /\ HasAnchorForm(SubSeq(NewTitles[i], Len(TransTitles[i]) + 2,
                            Len(NewTitles[i])))

(***************************************************************************)
(* C3: a translated heading inside a fenced code block never has an        *)
(* anchor appended.  The code looks for the first occurrence of the title  *)
(* text, which may lie outside the fence.                                  *)
(***************************************************************************)
C3_NoAnchorInsideFence ==
    Done =>
        \A i \in 1..Len(TransTitles) :
            is_in_code_block(translated, HeadingStart(translated, i))
                => ~AnchorAppended(i)

(***************************************************************************)
(* C4: the slug of every anchor holds lowercase letters, digits and        *)
(* hyphens only.  As stated this fails: the pattern that collapses         *)
(* whitespace needs at least two characters, and only the space is turned  *)
(* into a hyphen, so a single tab between two words stays in the slug.     *)
(***************************************************************************)
C4_SlugLettersDigitsHyphens ==
    pc = "anchored" =>
        \A i \in 1..Len(anchors) :
            /\ HasAnchorForm(anchors[i])
            /\ Chars(Slug(anchors[i]))
                   \subseteq LowerChars \cup DigitChars \cup {"-"}

(***************************************************************************)
(* C4, amended: the slug holds lowercase letters, digits, hyphens and      *)
(* single whitespace characters other than the space; it holds no space,   *)
(* no two adjacent whitespace characters, and neither starts nor ends      *)
(* with whitespace.                                                        *)
(***************************************************************************)
C4_SlugAmended ==
    pc = "anchored" =>
        \A i \in 1..Len(anchors) :
            LET slug == Slug(anchors[i])
            IN  /\ HasAnchorForm(anchors[i])
                /\ Chars(slug) \subseteq
                       LowerChars \cup DigitChars \cup {"-"}
                           \cup (SpaceChars \ {" "})
                /\ \A k \in 1..(Len(slug) - 1) :
                       ~(IsSpace(slug[k]) /\ IsSpace(slug[k + 1]))
                /\ slug # <<>> =>
                       ~IsSpace(slug[1]) /\ ~IsSpace(slug[Len(slug)])

\* a title with a capital, punctuation and a tab between two words has been
\* turned into a slug that keeps the tab
C4_Witness ==
    /\ pc = "anchored"
    /\ \E i \in 1..Len(anchors) :
           /\ {"B", "!", "\t"} \subseteq Chars(divided[3 * i - 1])
           /\ "\t" \in Chars(Slug(anchors[i]))
           /\ "b" \in Chars(Slug(anchors[i]))

\* the normalization, in the order the specification gives
ReferenceSlug(title) ==
    LET lowered   == LowerStr(title)
        deleted   == DeleteOthers(lowered)
        collapsed == CollapseSpaces(deleted, 0)
        trimmed   == Strip(collapsed)
    IN  ReplaceSpaces(trimmed)

(***************************************************************************)
(* C5: the slug is the reference normalization of the title (lowercase,    *)
(* delete all but lowercase letters, digits and whitespace, collapse runs  *)
(* of two or more whitespace characters to one space, trim, spaces to      *)
(* hyphens), and get_anchors returns one anchor per section, in order.     *)
(***************************************************************************)
C5_ReferenceNormalization ==
    pc = "anchored" =>
        /\ 3 * Len(anchors) = Len(divided)
        /\ \A i \in 1..Len(anchors) :
               anchors[i] = <<"[", "[">>
                                \o ReferenceSlug(divided[3 * i - 1])
                                \o <<"]", "]">>

\* two sections, the first title padded with whitespace on both sides of a
\* word, the second with a capital and a run of spaces
C5_Witness ==
    /\ pc = "anchored"
    /\ Len(anchors) = 2
    /\ Len(divided[2]) >= 3
    /\ IsSpace(divided[2][1])
    /\ IsSpace(divided[2][Len(divided[2])])
    /\ Slug(anchors[1]) # <<>>
    /\ anchors[2] = <<"[", "[", "a", "-", "b", "]", "]">>

(***************************************************************************)
(* C6: an anchor appended to the i-th translated heading is the anchor of  *)
(* the i-th heading of the original prose.                                 *)
(***************************************************************************)
C6_AnchorFromSourceHeading ==
    Done =>
        /\ Len(NewTitles) = Len(TransTitles)
        /\ \A i \in 1..Len(TransTitles) :
               \/ NewTitles[i] = TransTitles[i]
               \/ /\ i <= Len(OrigTitles)
                  /\ NewTitles[i] = TransTitles[i] \o <<" ">>
                                        \o get_anchor(OrigTitles[i])
               \/ /\ i > Len(OrigTitles)
                  /\ ~AnchorAppended(i)

\* the second translated heading, whose title differs from the second
\* original heading's and from the first original heading's, carries the
\* second original heading's anchor
C6_Witness ==
    /\ Done
    /\ Len(OrigTitles) >= 2
    /\ Len(TransTitles) >= 2
    /\ OrigTitles[1] # OrigTitles[2]
    /\ TransTitles[2] # OrigTitles[2]
    /\ AnchorAppended(2)
    /\ NewTitles[2] = TransTitles[2] \o <<" ">> \o get_anchor(OrigTitles[2])

(***************************************************************************)
(* C7: when the translation has another number of headings than the       *)
(* original, fill_scaffold still returns a document, the anchor list is    *)
(* cut or padded with empty anchors to the number of translated headings,  *)
(* and the header count mismatch is printed.                               *)
(***************************************************************************)
C7_HeaderCountMismatch ==
    (Done /\ Len(TransTitles) # Len(OrigTitles)) =>
        LET source == get_anchors(split_markdown_sections(to_translate))
            n == Len(TransTitles)
        IN  /\ outcome = "document"
            /\ Len(anchors) = n
            /\ \A i \in 1..n :
                   anchors[i] = IF i <= Len(source) THEN source[i] ELSE <<>>
            /\ Printed(HeaderWarning)

\* three original headings, two translated ones
C7_Witness ==
    /\ Done
    /\ Len(OrigTitles) = 3
    /\ Len(TransTitles) = 2
    /\ Len(anchors) = 2
    /\ outcome = "document"
    /\ Printed(HeaderWarning)

(***************************************************************************)
(* C8: a translated heading with no source anchor at its index is left as  *)
(* the translation wrote it.  The code pads the anchors with empty strings *)
(* and appends " " + anchor all the same: the heading gains a space.       *)
(***************************************************************************)
C8_ExtraHeadingUntouched ==
    Done =>
        \A i \in 1..Len(TransTitles) :
            i > Len(OrigTitles) => NewTitles[i] = TransTitles[i]

(***************************************************************************)
(* C9: with P placeholders and T translated paragraphs, T < P pads the     *)
(* paragraphs with empty strings up to P and T > P keeps the first P; the  *)
(* i-th placeholder of the scaffold receives the i-th of them.             *)
(***************************************************************************)
C9_ParagraphReconciliation ==
    Done =>
        LET P == PlaceholderCount
            T == Len(ReconstructedSections)
        IN  /\ Len(translated_sections) = P
            /\ \A i \in 1..P :
                   translated_sections[i] =
                       IF i <= T THEN ReconstructedSections[i] ELSE <<>>
            /\ scaffold = JoinParagraphs([i \in 1..P |-> Token(i - 1)])
                   => translated_doc = JoinParagraphs(translated_sections)

\* two placeholders, one translated paragraph: the second placeholder is
\* filled with the empty string
C9_Witness ==
    /\ Done
    /\ PlaceholderCount = 2
    /\ Len(ReconstructedSections) = 1
    /\ scaffold = JoinParagraphs([i \in 1..2 |-> Token(i - 1)])
    /\ translated_sections[1] # <<>>
    /\ translated_sections[2] = <<>>
    /\ translated_doc = translated_sections[1] \o ParagraphBreak

(***************************************************************************)
(* C10: padding or truncating the paragraphs is recorded as a warning the  *)
(* caller can observe.  The code prints the three counts on every run and  *)
(* nothing that depends on the mismatch; it returns the document alone.    *)
(***************************************************************************)
C10_ParagraphMismatchWarned ==
    (Done /\ Len(ReconstructedSections) # PlaceholderCount) =>
        \E k \in 1..Len(stdout) :
            stdout[k].line \notin EveryRunLabels \cup {HeaderWarning}

(***************************************************************************)
(* C11: a scaffold of four placeholders and an empty translated text end   *)
(* fill_scaffold in the "Error: Section count mismatch" outcome, with no   *)
(* document returned.                                                      *)
(***************************************************************************)
C11_EmptyTranslationFails ==
    (Done /\ PlaceholderCount = 4 /\ translated = <<>>) =>
        /\ outcome = "error"
        /\ MatchAt(translated_doc, ERROR_EXPECTED, 0)

\* C11 as the code has it: the empty text is one empty paragraph, padded to
\* four, and the document returned is the scaffold with every placeholder
\* replaced by the empty string
C11_EmptyTranslationPadded ==
    (Done /\ PlaceholderCount = 4 /\ translated = <<>>) =>
        /\ outcome = "document"
        /\ translated_sections = <<<<>>, <<>>, <<>>, <<>>>>
        /\ scaffold = JoinParagraphs([i \in 1..4 |-> Token(i - 1)])
               => translated_doc = JoinParagraphs(translated_sections)

\* the example document answered with the empty text
C11_Witness ==
    /\ Done
    /\ content = ExampleDocument
    /\ PlaceholderCount = 4
    /\ translated = <<>>
    /\ outcome = "document"
    /\ translated_doc = <<NL, NL, NL, NL, NL, NL>>

(***************************************************************************)
(* C12: after the reconciliation the number of translated paragraphs is    *)
(* the placeholder count, so fill_scaffold never returns the "Error:       *)
(* Section count mismatch" outcome, whatever its three arguments are.      *)
(***************************************************************************)
C12_MismatchErrorUnreachable ==
    Done =>
        /\ Len(translated_sections) = PlaceholderCount
        /\ outcome = "document"
        /\ ~MatchAt(translated_doc, ERROR_EXPECTED, 0)

\* more translated paragraphs than placeholders, and a document all the same
C12_Witness ==
    /\ Done
    /\ Len(ReconstructedSections) > PlaceholderCount
    /\ PlaceholderCount >= 1
    /\ outcome = "document"

\* the first characters of a placeholder token, "$hf_"
TokenStart == SubSeq(PLACEHOLDER, 1, 4)

(***************************************************************************)
(* C13: a document returned by fill_scaffold has every placeholder of the  *)
(* scaffold replaced by its paragraph, so it holds no placeholder token    *)
(* and no fragment of one.  No source line and no answer of the model has  *)
(* a "$" in it, so one in the document is left from the scaffold.          *)
(***************************************************************************)
C13_NoLeftoverPlaceholder ==
    (Done /\ outcome = "document") =>
        /\ Find(translated_doc, PLACEHOLDER) = -1
        /\ Find(translated_doc, TokenStart) = -1

\* what fill_scaffold printed on the line after label
PrintedAfter(label) ==
    LET k == CHOOSE j \in 1..(Len(stdout) - 1) : stdout[j].line = label
    IN  stdout[k + 1].args

\* the index of the first heading line of text, Len(text) if it has none
FirstHeading(text) ==
    Min({i \in 0..Len(text) : i = Len(text) \/ HeadingAt(text, i)})

\* sections are the triples of text from its first heading on
IsSegmentation(sections, text) ==
    /\ Len(sections) % 3 = 0
    /\ \A j \in 1..Len(sections) :
           j % 3 = 1 =>
               /\ sections[j] # <<>>
               /\ sections[j][1] = "#"
               /\ Chars(sections[j]) \subseteq {"#"} \cup SpaceChars
               /\ NL \notin Chars(sections[j + 1])
    /\ Join(sections) = From(text, FirstHeading(text))
    /\ (FirstHeading(text) = Len(text)) => sections = <<>>

(***************************************************************************)
(* C14: split_markdown_sections returns, for every string, a flat list of  *)
(* level, title, body triples (its length a multiple of 3, empty for text  *)
(* without a heading) whose concatenation is the input text without what   *)
(* precedes the first heading.  fill_scaffold splits the prose and the     *)
(* translation and prints both lists.                                      *)
(***************************************************************************)
C14_SegmentationReconstructs ==
    Done =>
        /\ IsSegmentation(PrintedAfter("divided:"), to_translate)
        /\ IsSegmentation(PrintedAfter("translated divided:"), translated)

\* a translation of two headings with text before the first: two triples,
\* the leading text dropped
C14_Witness ==
    /\ Done
    /\ FirstHeading(translated) > 0
    /\ Len(PrintedAfter("translated divided:")) = 6
    /\ Join(PrintedAfter("translated divided:")) # translated

(***************************************************************************)
(* C15: for the example document, heading "# Title", paragraph "Hello      *)
(* world.", heading "## Sub" and paragraph "More text.", a blank line      *)
(* between each, the scaffold built by make_scaffold holds exactly two     *)
(* placeholders.                                                           *)
(***************************************************************************)
C15_ExampleTwoPlaceholders ==
    (Done /\ content = ExampleDocument /\ to_translate = content) =>
        PlaceholderCount = 2

\* C15 as the code has it: the headings are paragraphs too, the scaffold of
\* the example is four placeholders, numbered 0 to 3, and nothing else
C15_ExampleFourPlaceholders ==
    (Done /\ content = ExampleDocument /\ to_translate = content) =>
        /\ PlaceholderCount = 4
        /\ scaffold = JoinParagraphs([i \in 1..4 |-> Token(i - 1)])

\* the example document, answered with its own prose
C15_Witness ==
    /\ Done
    /\ content = ExampleDocument
    /\ to_translate = content
    /\ translated = to_translate
    /\ PlaceholderCount = 4

(***************************************************************************)
(* C16: a failure of the translation invoker is fatal for the document and *)
(* reaches the caller as a failure: when the model call inside             *)
(* llm_translate fails, the caller is not handed a translation to          *)
(* reassemble, and the call is not made again.  llm_translate returns a    *)
(* pair like that of a successful call, with the empty translation.        *)
(***************************************************************************)
C16_InvokerFailureReachesCaller ==
    (call.handler = "llm_translate" /\ call.exception # None) =>
        /\ pc # "returned"
        /\ call.returned = None

\* the last handler call ran translate_docs
Translated == call.handler # "none" /\ call.translation.result # "none"

\* the source document of the last translate_docs call is missing or empty
SourceMissingOrEmpty ==
    \/ call.translation.file_path = ""
    \/ call.translation.response.raised
    \/ call.translation.response.status_code # 200
    \/ call.translation.response.text = <<>>

(***************************************************************************)
(* C17: a missing or empty source document is never translated: when the   *)
(* file path is empty, the fetch does not answer 200 or the content        *)
(* fetched is the empty string, translate_docs does not get to the call of *)
(* the translation invoker (line 79) and returns no translated document.   *)
(***************************************************************************)
C17_MissingOrEmptyNeverTranslated ==
    (Translated /\ SourceMissingOrEmpty) =>
        /\ call.translation.result = "raised"
        /\ call.translation.line # 79

(***************************************************************************)
(* C18: translation requests are independent: what translate_docs returns  *)
(* for a file, a language and an additional instruction depends on those   *)
(* and on what the fetch and the model answer, never on an earlier         *)
(* request.  The trace an earlier request leaves is its file in            *)
(* translation_result (start_translation_process, line 143): the same      *)
(* request must end the same way whatever that directory holds.            *)
(***************************************************************************)
C18_RequestsIndependent ==
    Translated =>
        \A files \in Deployments :
            LET t == translate_docs(call.translation.lang,
                                    call.translation.file_path,
                                    state.additional_instruction, files,
                                    call.translation.response)
            IN  /\ t.result = call.translation.result
                /\ t.translated_doc = call.translation.translated_doc

\* the order of the steps
StepOrder ==
    {<<"welcome", "find_files">>, <<"find_files", "translate">>,
     <<"translate", "create_github_pr">>}

(***************************************************************************)
(* C19: the step of the session only moves along welcome, find_files,      *)
(* translate, create_github_pr, or back to welcome on a restart: no        *)
(* handler call skips a step forward or takes the step backward, restart   *)
(* apart.                                                                  *)
(***************************************************************************)
C19_StepOrder ==
    [][\/ state'.step = state.step
       \/ <<state.step, state'.step>> \in StepOrder
       \/ state' = ChatState]_vars

\* the documents without a translation that are not in progress
AvailableFiles == NotIn(call.missing, call.docs_in_progress)

(***************************************************************************)
(* C20: report_translation_target_files(lang, top_k) returns the first     *)
(* top_k documents of the missing-translation list that are not in         *)
(* progress: none of docs_in_progress, in the report's order, and exactly  *)
(* min(top_k, number of missing documents not in progress) of them.        *)
(***************************************************************************)
C20_FirstAvailableFiles ==
    (call.handler = "report_translation_target_files"
     /\ call.result = "returned") =>
        /\ Len(call.files) = Len(Slice(AvailableFiles, call.top_k))
        /\ \A i \in 1..Len(call.files) :
               call.files[i] = <<AvailableFiles[i]>>

\* the search is over
Searched == call.handler = "find_reference_pr_simple_stream" /\ pc \notin
    {"line 132", "line 94", "line 103", "line 105"}

(***************************************************************************)
(* C21: with the required libraries available,                             *)
(* find_reference_pr_simple_stream always ends with a result of status     *)
(* "success" whose text names a PR URL: the URL of the first hit when the  *)
(* search returns hits, DEFAULT_FALLBACK_PR_URL when it returns nothing or *)
(* fails with an error.                                                    *)
(***************************************************************************)
C21_ReferencePRAlwaysReturned ==
    (Searched /\ call.REQUIRED_LIBS_AVAILABLE) =>
        /\ pc = "returned"
        /\ call.value.status = "success"
        /\ call.value.result =
               <<"Recommended PR URL: ",
                 IF call.answer.raised \/ call.answer.page = <<>>
                 THEN DEFAULT_FALLBACK_PR_URL
                 ELSE call.answer.page[1]>>

\* a search that raised: the fallback is returned, after two messages
C21_Witness ==
    /\ Searched
    /\ call.REQUIRED_LIBS_AVAILABLE
    /\ call.answer.raised
    /\ call.search_results = <<ErrorEntry>>
    /\ Len(call.yielded) = 2
    /\ call.value.result[2] = DEFAULT_FALLBACK_PR_URL

\* the chat message "restart"
RestartMessage == <<"r", "e", "s", "t", "a", "r", "t">>

(***************************************************************************)
(* C22: restart starts over from any step: in every session step, the      *)
(* restart button (restart_handler) and the chat message "restart" replace *)
(* the session state by the initial state, and no translation is started.  *)
(* Read at every state of the session: the call there would end so.        *)
(***************************************************************************)
C22_RestartFromAnyStep ==
    pc = "session" =>
        \A response \in Answers(state) :
            LET r == handle_user_message("send_message", state, fs,
                                         RestartMessage, response)
            IN  /\ r.result = "returned"
                /\ r.state = ChatState
                /\ r.translation = NoTranslation

\* generate_github_pr was called by the last handler call
PRCalled ==
    /\ pc = "session"
    /\ call.handler = "approve_handler"
    /\ call.generate_github_pr.called

(***************************************************************************)
(* C23: whenever approve_handler passes a file path and a translated       *)
(* content to generate_github_pr, the content is the translation produced  *)
(* for that file path, which start_translation_process left in             *)
(* translation_result under that path.                                     *)
(***************************************************************************)
C23_ContentBelongsToFile ==
    PRCalled =>
        /\ call.generate_github_pr.filepath = state.files_to_translate[1]
        /\ fs[call.generate_github_pr.filepath] =
               File(call.generate_github_pr.translated_content)

\* the GitHub token, the owner or the repository name is missing
ConfigIncomplete(st) ==
    \/ st.github_config.token = ""
    \/ st.github_config.owner = ""
    \/ st.github_config.repo_name = ""

(***************************************************************************)
(* C24: approve_handler calls generate_github_pr only when the stored      *)
(* token, the owner and the repository name are non-empty, the files to    *)
(* translate are non-empty and a non-empty translated content is stored;   *)
(* a token only becomes non-empty by update_github_config, so never before *)
(* it stored one since the last restart.  With the token, owner or repo    *)
(* missing approve_handler appends 'GitHub configuration incomplete' and   *)
(* makes no PR call.                                                       *)
(***************************************************************************)
C24_PRCallNeedsConfigAndTranslation ==
    [][/\ (call'.handler = "approve_handler" /\ call'.generate_github_pr.called) =>
              /\ ~ConfigIncomplete(state')
              /\ state'.files_to_translate # <<>>
              /\ state'.current_file_content.translated # <<>>
              /\ call'.generate_github_pr.translated_content # <<>>
       /\ (call'.handler = "approve_handler" /\ ConfigIncomplete(state')) =>
              /\ call'.result = "returned"
              /\ call'.appended = <<"GitHub configuration incomplete.">>
              /\ ~call'.generate_github_pr.called
       /\ (state.github_config.token = "" /\ state'.github_config.token # "") =>
              call'.handler = "update_github_config"]_vars

\* generate_github_pr called with a complete configuration and a stored
\* translation
C24_Witness ==
    /\ PRCalled
    /\ ~ConfigIncomplete(state)
    /\ state.current_file_content.translated # <<>>

(***************************************************************************)
(* C25: with the token, owner and repo set, a non-empty reference PR URL   *)
(* supplied and a translated file available, approve_handler calls         *)
(* generate_github_pr for that file and returns normally with the PR       *)
(* response appended.  Read at every state of the session with a token and *)
(* a translated file: the call there would end so.                         *)
(***************************************************************************)
C25_ApproveWithReferencePR ==
    (/\ pc = "session"
     /\ state.github_config.token # ""
     /\ state.files_to_translate # <<>>
     /\ state.current_file_content.translated # <<>>) =>
        \A owner \in Owners \ {""}, repo \in Repos \ {""},
           reference_pr_url \in ReferencePRs \ {""} :
            LET r == approve(state, fs, owner, repo, reference_pr_url,
                             "ImportError")
            IN  /\ r.result = "returned"
                /\ r.generate_github_pr.called
                /\ r.generate_github_pr.filepath = state.files_to_translate[1]
                /\ r.appended # <<>>

(***************************************************************************)
(* C26: when translating the current file raises an error,                 *)
(* handle_user_message returns normally and appends a response starting    *)
(* with 'Translation failed'; the error never escapes the handler.         *)
(***************************************************************************)
C26_TranslationErrorHandled ==
    (pc = "session" /\ Translated /\ call.translation.result = "raised") =>
        /\ call.result = "returned"
        /\ call.appended # <<>>
        /\ call.appended[1] = "Translation failed: "

(***************************************************************************)
(* C27: in every session step, start_translate_handler called with a file  *)
(* path f sets the files to translate to [f] and starts the translation    *)
(* process for f: the step becomes translate and start_translation_process *)
(* runs for f.  A translation is only started by a start request with      *)
(* files to translate.                                                     *)
(***************************************************************************)
C27_StartTranslateAlwaysStarts ==
    /\ (pc = "session" /\ call.handler = "start_translate_handler") =>
           /\ Len(state.files_to_translate) = 1
           /\ state.step = "translate"
           /\ call.translation.result # "none"
           /\ call.translation.file_path = state.files_to_translate[1]
    /\ (pc = "session" /\ Translated) =>
           /\ call.handler \in {"start_translate_handler", "send_message"}
           /\ state.files_to_translate # <<>>

\* the PR of filtered_prs that the file name of index i was taken from
FromPR(i) ==
    call.filtered_prs[CHOOSE n \in 1..Len(call.from_pr) : call.from_pr[n] = i]

(***************************************************************************)
(* C28: get_github_issue_open_pr returns two index-aligned lists: for      *)
(* every index i of the file names, filenames[i] was extracted from the    *)
(* title of the very PR whose URL is pr_info_list[i], so the in-progress   *)
(* report pairs each file with its own PR.                                 *)
(***************************************************************************)
C28_ListsAligned ==
    (call.handler = "get_github_issue_open_pr" /\ pc \in {"line 28", "line 48"}) =>
        /\ \A i \in 1..Len(call.filenames) :
               call.pr_info_list[i] = PrInfo(FromPR(i))
        /\ pc = "line 48" =>
               \A i \in 1..Len(call.status_report) :
                   call.status_report[i].pr_info = PrInfo(FromPR(i))

====
